---- MODULE Spec2Model ----
(***************************************************************************)
(* Model of wow_helper_bot.py: the YAML mapping loader, the indices built  *)
(* by WoWBot.setup_hook, and the WowHelper cog's autocomplete handlers and *)
(* commands (guide, mplus, raid).                                          *)
(*                                                                         *)
(* A Python str is a sequence of one-character strings.  A parsed YAML     *)
(* value is a tagged record (null, str, int or map); a map keeps its items *)
(* in document order, as a Python dict does.                               *)
(***************************************************************************)
EXTENDS Integers, Sequences, FiniteSets, TLC

VARIABLES
    files,        \* the mappings/ directory: which document each file holds
    pc,           \* "boot" before setup_hook, then "ready" or "failed"
    data,         \* WowHelper.data: wowhead, icy, mplus_routes, murloc, raids
    all_classes,  \* WowHelper.all_classes
    last          \* the interaction in progress: its inputs and what it produced

vars == <<files, pc, data, all_classes, last>>

----------------------------------------------------------------------------
(* Bounds of the model *)

\* longest string a user types as a command argument or a partial input
MaxLen == 2
\* entries of the large mapping files (more than the autocomplete cap)
NumBig == 27
\* characters of a key of the large mapping files
BigWidth == 5
\* most words of a chat message
MaxWords == 3

\* the slice [:25] of every autocomplete handler
MaxChoices == 25

----------------------------------------------------------------------------
(* Python str *)

Lowers == <<"a","b","c","d","e","f","g","h","i","j","k","l","m",
            "n","o","p","q","r","s","t","u","v","w","x","y","z">>
Uppers == <<"A","B","C","D","E","F","G","H","I","J","K","L","M",
            "N","O","P","Q","R","S","T","U","V","W","X","Y","Z">>

Digits == <<"0","1","2","3","4","5","6","7","8","9">>

\* the characters of the model: letters, digits, space, ! and _
Chars ==
    {Lowers[i] : i \in 1..26} \cup {Uppers[i] : i \in 1..26}
    \cup {Digits[i] : i \in 1..10} \cup {" ", "!", "_"}

IsCasedMap ==
    [c \in Chars |-> \E i \in 1..26 : Lowers[i] = c \/ Uppers[i] = c]

LowerMap ==
    [c \in Chars |->
        IF \E i \in 1..26 : Uppers[i] = c
        THEN Lowers[CHOOSE i \in 1..26 : Uppers[i] = c]
        ELSE c]

UpperMap ==
    [c \in Chars |->
        IF \E i \in 1..26 : Lowers[i] = c
        THEN Uppers[CHOOSE i \in 1..26 : Lowers[i] = c]
        ELSE c]

\* code point of a character
OrdMap ==
    [c \in Chars |->
        IF \E i \in 1..26 : Uppers[i] = c
        THEN 64 + (CHOOSE i \in 1..26 : Uppers[i] = c)
        ELSE IF \E i \in 1..26 : Lowers[i] = c
        THEN 96 + (CHOOSE i \in 1..26 : Lowers[i] = c)
        ELSE IF \E i \in 1..10 : Digits[i] = c
        THEN 47 + (CHOOSE i \in 1..10 : Digits[i] = c)
        ELSE IF c = " " THEN 32
        ELSE IF c = "!" THEN 33
        ELSE 95]

IsCased(c) == IsCasedMap[c]
LowerC(c) == LowerMap[c]
UpperC(c) == UpperMap[c]
Ord(c) == OrdMap[c]

\* str.lower()
Lower(s) == [i \in 1..Len(s) |-> LowerC(s[i])]

\* str.title(): a cased character that follows a cased character is
\* lower-cased, any other cased character is upper-cased
Title(s) ==
    [i \in 1..Len(s) |->
        IF i > 1 /\ IsCased(s[i-1]) THEN LowerC(s[i]) ELSE UpperC(s[i])]

\* str.replace("_", " ")
Replace(s) == [i \in 1..Len(s) |-> IF s[i] = "_" THEN " " ELSE s[i]]

\* sub in s
Contains(sub, s) ==
    \E i \in 0..(Len(s) - Len(sub)) : SubSeq(s, i + 1, i + Len(sub)) = sub

\* s.startswith(p)
StartsWith(s, p) == Len(s) >= Len(p) /\ SubSeq(s, 1, Len(p)) = p

\* s < t, the order sorted() uses on str
StrLess(s, t) ==
    \E i \in 1..(Len(s) + 1) :
        /\ i <= Len(t)
        /\ \A j \in 1..(i - 1) : s[j] = t[j]
        /\ (i = Len(s) + 1 \/ Ord(s[i]) < Ord(t[i]))

\* sorted(set(...)) of a set of str
Sorted(S) ==
    LET n == Cardinality(S)
        rank(s) == Cardinality({t \in S : StrLess(t, s)}) + 1
    IN  [i \in 1..n |-> CHOOSE s \in S : rank(s) = i]

\* all str over the characters C, up to n characters long
RECURSIVE StrUpTo(_, _)
StrUpTo(C, n) ==
    IF n = 0 THEN {<<>>}
    ELSE LET shorter == StrUpTo(C, n - 1)
         IN  shorter \cup {Append(s, c) : s \in shorter, c \in C}

----------------------------------------------------------------------------
(* Parsed YAML values *)

Null == [t |-> "null", s |-> <<>>, n |-> 0, items |-> <<>>]
Str(x) == [t |-> "str", s |-> x, n |-> 0, items |-> <<>>]
Num(x) == [t |-> "int", s |-> <<>>, n |-> x, items |-> <<>>]
Map(x) == [t |-> "map", s |-> <<>>, n |-> 0, items |-> x]
EmptyMap == Map(<<>>)

IsMap(v) == v.t = "map"
IsStr(v) == v.t = "str"

\* bool(v)
Truthy(v) ==
    CASE v.t = "null" -> FALSE
      [] v.t = "str" -> v.s # <<>>
      [] v.t = "int" -> v.n # 0
      [] v.t = "map" -> v.items # <<>>

\* v or w
Or(v, w) == IF Truthy(v) THEN v ELSE w

\* k in m, for a map m
Has(m, k) == \E i \in 1..Len(m.items) : m.items[i][1] = k

\* m.get(k, default), for a map m
Get(m, k, default) ==
    IF Has(m, k)
    THEN m.items[CHOOSE i \in 1..Len(m.items) : m.items[i][1] = k][2]
    ELSE default

\* str(v) of a value that is not a map
PyStr(v) ==
    CASE v.t = "str" -> v.s
      [] v.t = "null" -> <<"N","o","n","e">>
      [] v.t = "int" -> <<Digits[v.n + 1]>>
      [] OTHER -> <<>>

----------------------------------------------------------------------------
(* Python dict keyed by (class, spec): a sequence of <<key, value>> *)

DictHas(d, k) == \E i \in 1..Len(d) : d[i][1] = k

DictGet(d, k) == d[CHOOSE i \in 1..Len(d) : d[i][1] = k][2]

----------------------------------------------------------------------------
(* String literals of the program *)

S_wowhead == <<"w","o","w","h","e","a","d">>
S_icy_veins == <<"i","c","y","_","v","e","i","n","s">>
S_dungeons == <<"d","u","n","g","e","o","n","s">>
S_bosses == <<"b","o","s","s","e","s">>
S_classes == <<"c","l","a","s","s","e","s">>
S_mplus_class_guides ==
    <<"m","p","l","u","s","_","c","l","a","s","s","_","g","u","i","d","e","s">>
S_name == <<"n","a","m","e">>
S_url == <<"u","r","l">>
S_http == <<"h","t","t","p">>
S_routes == <<"r","o","u","t","e","s">>
S_murloc == <<"m","u","r","l","o","c">>
S_guide == <<"g","u","i","d","e">>
S_mplus == <<"m","p","l","u","s">>
S_raid == <<"r","a","i","d">>
\* command_prefix of WoWBot
Prefix == <<"!">>

----------------------------------------------------------------------------
(* The loader *)

Missing == [t |-> "missing", s |-> <<>>, n |-> 0, items |-> <<>>]

\* safe_load_yaml without its path.exists() test: the missing file is opened
safe_load_yaml_unguarded(file) == IF file.t = "missing" THEN file ELSE Or(file, EmptyMap)

\* safe_load_yaml: {} for a missing file, else yaml.safe_load(f) or {}
safe_load_yaml(file) == IF file.t = "missing" THEN EmptyMap ELSE Or(file, EmptyMap)

\* (raw.get(src, {}) or {})
GuideSection(raw, src) == Or(Get(raw, Str(src), EmptyMap), EmptyMap)

\* the key load_guides stores a (class, spec) pair under
GuideKey(cls, spec) == <<Lower(cls), Lower(spec)>>

\* the (cls, spec, url) triples the two nested loops of load_guides visit,
\* in the order they visit them
GuideVisits(classes) ==
    LET specs(i) == Or(classes[i][2], EmptyMap).items
        P == UNION {{<<i, j>> : j \in 1..Len(specs(i))} : i \in 1..Len(classes)}
        before(p, q) == p[1] < q[1] \/ (p[1] = q[1] /\ p[2] <= q[2])
        at(n) == CHOOSE q \in P : Cardinality({p \in P : before(p, q)}) = n
    IN  [n \in 1..Cardinality(P) |->
            <<classes[at(n)[1]][1], specs(at(n)[1])[at(n)[2]][1],
              specs(at(n)[1])[at(n)[2]][2]>>]

\* target[(cls.lower(), spec.lower())] = url for every visit: a key stands
\* where it was first inserted and holds the value written last
LoadVisits(visits) ==
    LET key(n) == GuideKey(visits[n][1].s, visits[n][2].s)
        First == {n \in 1..Len(visits) : \A m \in 1..(n - 1) : key(m) # key(n)}
        first(k) == CHOOSE n \in First : Cardinality({m \in First : m <= n}) = k
        lastOf(n) == CHOOSE m \in 1..Len(visits) :
                        /\ key(m) = key(n)
                        /\ \A l \in (m + 1)..Len(visits) : key(l) # key(n)
    IN  [k \in 1..Cardinality(First) |-> <<key(first(k)), visits[lastOf(first(k))][3]>>]

\* load_guides raises (AttributeError) on a value without .get, .items or .lower
LoadGuidesRaises(raw) ==
    \/ ~IsMap(raw)
    \/ \E src \in {S_wowhead, S_icy_veins} :
         LET sec == GuideSection(raw, src) IN
         \/ ~IsMap(sec)
         \/ \E i \in 1..Len(sec.items) :
              LET cls == sec.items[i][1]
                  specs == Or(sec.items[i][2], EmptyMap)
              IN  \/ ~IsMap(specs)
                  \/ specs.items # <<>> /\ ~IsStr(cls)
                  \/ \E j \in 1..Len(specs.items) : ~IsStr(specs.items[j][1])

\* one of the two dicts load_guides returns
load_guides(raw, src) == LoadVisits(GuideVisits(GuideSection(raw, src).items))

\* safe_load_yaml(path).get(section, {})
LoadSection(file, section) == Get(safe_load_yaml(file), Str(section), EmptyMap)

\* the murloc mapping setup_hook picks out of murloc.yaml
LoadMurloc(file) ==
    LET murloc_raw == safe_load_yaml(file) IN
    IF IsMap(murloc_raw)
    THEN IF Has(murloc_raw, Str(S_classes)) THEN Get(murloc_raw, Str(S_classes), Null)
         ELSE IF Has(murloc_raw, Str(S_mplus_class_guides))
              THEN Get(murloc_raw, Str(S_mplus_class_guides), Null)
              ELSE murloc_raw
    ELSE EmptyMap

\* setup_hook raises: load_guides does, or .get is called on what is no mapping
SetupRaises(f) ==
    \/ LoadGuidesRaises(safe_load_yaml(f.guides))
    \/ ~IsMap(safe_load_yaml(f.routes))
    \/ ~IsMap(safe_load_yaml(f.raid))

\* the data dict setup_hook hands to WowHelper
LoadData(f) ==
    [wowhead |-> load_guides(safe_load_yaml(f.guides), S_wowhead),
     icy |-> load_guides(safe_load_yaml(f.guides), S_icy_veins),
     mplus_routes |-> LoadSection(f.routes, S_dungeons),
     murloc |-> LoadMurloc(f.murloc),
     raids |-> LoadSection(f.raid, S_bosses)]

\* sorted(list(set(k[0] for k in data["wowhead"].keys())))
AllClasses(d) == Sorted({d.wowhead[i][1][1] : i \in 1..Len(d.wowhead)})

\* no cog exists before setup_hook has run
NoData ==
    [wowhead |-> <<>>, icy |-> <<>>, mplus_routes |-> EmptyMap,
     murloc |-> EmptyMap, raids |-> EmptyMap]

----------------------------------------------------------------------------
(* The mapping files the model starts from *)

Url1 == S_http \o <<"a">>
Url2 == S_http \o <<"b">>

\* a key of a large mapping file: i written in BigWidth binary digits a/b
BigKey(i) ==
    [j \in 1..BigWidth |-> IF (i \div (2 ^ (BigWidth - j))) % 2 = 0 THEN "a" ELSE "b"]

\* a {name, url} record
Rec(name, url) == Map(<< <<Str(S_name), Str(name)>>, <<Str(S_url), Str(url)>> >>)

\* guides.yaml: (ab, ba) under both providers, (ab, a) and (a, b) under wowhead
\* only, (b, a) under icy_veins only; classes and specs in mixed case
GuidesGood ==
    Map(<< <<Str(S_wowhead),
             Map(<< <<Str(<<"A","b">>),
                      Map(<< <<Str(<<"b","A">>), Str(Url1)>>,
                             <<Str(<<"a">>), Str(Url2)>> >>)>>,
                    <<Str(<<"a">>), Map(<< <<Str(<<"B">>), Str(Url1)>> >>)>> >>)>>,
           <<Str(S_icy_veins),
             Map(<< <<Str(<<"a","b">>), Map(<< <<Str(<<"b","a">>), Str(Url2)>> >>)>>,
                    <<Str(<<"b">>), Map(<< <<Str(<<"A">>), Str(Url1)>> >>)>> >>)>> >>)

\* guides.yaml with more classes, and more specs of class a, than the cap;
\* written in descending order
GuidesBig ==
    Map(<< <<Str(S_wowhead),
             Map([i \in 1..(NumBig + 1) |->
                    IF i <= NumBig
                    THEN <<Str(BigKey(NumBig - i)), Map(<< <<Str(<<"a">>), Str(Url1)>> >>)>>
                    ELSE <<Str(<<"a">>),
                           Map([j \in 1..NumBig |->
                                  <<Str(BigKey(NumBig - j)), Str(Url2)>>])>>])>> >>)

\* guides.yaml where the value of class a is a string, not a mapping
GuidesClassNotMap ==
    Map(<< <<Str(S_wowhead),
             Map(<< <<Str(<<"a">>), Str(<<"x">>)>>,
                    <<Str(<<"b">>), Map(<< <<Str(<<"a">>), Str(Url1)>> >>)>> >>)>> >>)

\* guides.yaml where a class key is the number 1
GuidesKeyNotStr ==
    Map(<< <<Str(S_wowhead),
             Map(<< <<Num(1), Map(<< <<Str(<<"a">>), Str(Url1)>> >>)>>,
                    <<Str(<<"b">>), Map(<< <<Str(<<"a">>), Str(Url1)>> >>)>> >>)>> >>)

\* guides.yaml with a null provider section, a class without specs and a
\* spec without URL
GuidesNullSection ==
    Map(<< <<Str(S_wowhead), Null>>,
           <<Str(S_icy_veins),
             Map(<< <<Str(<<"a">>), Null>>,
                    <<Str(<<"b">>), Map(<< <<Str(<<"a">>), Str(Url1)>> >>)>>,
                    <<Str(<<"a","b">>), Map(<< <<Str(<<"b","a">>), Null>> >>)>> >>)>> >>)

\* the documents guides.yaml may hold, by name; "empty" is a file without
\* content
GuidesNames ==
    {"missing", "empty", "good", "big", "class_not_map", "key_not_str", "null_section"}

GuidesDoc(name) ==
    CASE name = "missing" -> Missing
      [] name = "empty" -> Null
      [] name = "good" -> GuidesGood
      [] name = "big" -> GuidesBig
      [] name = "class_not_map" -> GuidesClassNotMap
      [] name = "key_not_str" -> GuidesKeyNotStr
      [] name = "null_section" -> GuidesNullSection

\* slug -> {name, url}: lower-case and mixed-case slugs
EntriesGood ==
    Map(<< <<Str(<<"a">>), Rec(<<"A","b">>, Url1)>>,
           <<Str(<<"A","b">>), Rec(<<"b">>, Url2)>>,
           <<Str(<<"b","a">>), Rec(<<"a"," ","b">>, Url1)>> >>)

\* more entries than the cap
EntriesBig ==
    Map([i \in 1..NumBig |->
           <<Str(BigKey(NumBig - i)), Rec(Title(BigKey(NumBig - i)), Url1)>>])

\* a record without name and a record without url, with a well-formed sibling
EntriesPartial ==
    Map(<< <<Str(<<"b">>), Rec(<<"B","a">>, Url1)>>,
           <<Str(<<"a">>), Map(<< <<Str(S_url), Str(Url2)>> >>)>>,
           <<Str(<<"a","b">>), Map(<< <<Str(S_name), Str(<<"A">>)>> >>)>> >>)

\* the documents mplus-routes.yaml (section dungeons) and raid.yaml (section
\* bosses) may hold, by name
SectionNames == {"missing", "empty", "good", "big", "partial", "null_section"}

SectionDoc(section, name) ==
    CASE name = "missing" -> Missing
      [] name = "empty" -> Null
      [] name = "good" -> Map(<< <<Str(section), EntriesGood>> >>)
      [] name = "big" -> Map(<< <<Str(section), EntriesBig>> >>)
      [] name = "partial" -> Map(<< <<Str(section), EntriesPartial>> >>)
      [] name = "null_section" -> Map(<< <<Str(section), Null>> >>)

\* slug -> plain string | {name, url} | {sub-key: url}; also a record with a
\* name only, an empty record and a null value
VariantsGood ==
    Map(<< <<Str(<<"a">>), Str(<<"A"," ","b">>)>>,
           <<Str(<<"b">>), Rec(<<"B","a">>, Url1)>>,
           <<Str(<<"a","b">>),
             Map(<< <<Str(<<"b">>), Str(Url2)>>, <<Str(<<"a">>), Str(Url1)>> >>)>>,
           <<Str(<<"a","_","b">>), Map(<< <<Str(S_url), Str(<<"x">>)>> >>)>>,
           <<Str(<<"A","a">>), Map(<< <<Str(S_name), Str(<<"b","b">>)>> >>)>>,
           <<Str(<<"b","a">>), Null>>,
           <<Str(<<"b","b">>), EmptyMap>> >>)

VariantsBig ==
    Map([i \in 1..NumBig |-> <<Str(BigKey(NumBig - i)), Str(Title(BigKey(NumBig - i)))>>])

\* the documents murloc.yaml may hold, by name: the variants under either
\* top-level key or at the top level
MurlocNames == {"missing", "empty", "good", "alt_key", "bare", "big", "null_section"}

MurlocDoc(name) ==
    CASE name = "missing" -> Missing
      [] name = "empty" -> Null
      [] name = "good" -> Map(<< <<Str(S_classes), VariantsGood>> >>)
      [] name = "alt_key" -> Map(<< <<Str(S_mplus_class_guides), VariantsGood>> >>)
      [] name = "bare" -> VariantsGood
      [] name = "big" -> Map(<< <<Str(S_classes), VariantsBig>> >>)
      [] name = "null_section" -> Map(<< <<Str(S_classes), Null>> >>)

\* the mappings/ directory with every file well-formed
GoodDir == [guides |-> "good", routes |-> "good", murloc |-> "good", raid |-> "good"]

\* the mappings/ directory with no file in it
EmptyDir ==
    [guides |-> "missing", routes |-> "missing", murloc |-> "missing", raid |-> "missing"]

\* the directories the model starts from: no file at all, or at most one
\* file other than the well-formed one
MappingDirs ==
    {EmptyDir}
    \cup {[GoodDir EXCEPT !.guides = g] : g \in GuidesNames}
    \cup {[GoodDir EXCEPT !.routes = r] : r \in SectionNames}
    \cup {[GoodDir EXCEPT !.murloc = m] : m \in MurlocNames}
    \cup {[GoodDir EXCEPT !.raid = r] : r \in SectionNames}

\* the parsed content of the four files of a directory
ReadDir(dir) ==
    [guides |-> GuidesDoc(dir.guides),
     routes |-> SectionDoc(S_dungeons, dir.routes),
     murloc |-> MurlocDoc(dir.murloc),
     raid |-> SectionDoc(S_bosses, dir.raid)]

----------------------------------------------------------------------------
(* What a handler produces: a message, an embed, a list of choices, or an
   exception *)

L_Wowhead == <<"W","o","w","h","e","a","d">>
L_IcyVeins == <<"I","c","y"," ","V","e","i","n","s">>
L_RouteLink == <<"R","o","u","t","e"," ","L","i","n","k">>
L_Link == <<"L","i","n","k">>
L_GuideLink == <<"G","u","i","d","e"," ","L","i","n","k">>

\* ctx.send(text, ephemeral=True): which text, and the arguments it quotes
Say(msg, args) == [kind |-> "text", msg |-> msg, args |-> args]

\* ctx.send(embed=...): the embed's kind, its title and its (name, link) fields
Embed(heading, title, fields) ==
    [kind |-> "embed", msg |-> heading, title |-> title, fields |-> fields]

Field(name, link) == [name |-> name, link |-> link]

\* the handler raised
Raise == [kind |-> "raise"]

\* the list an autocomplete handler returns
Choices(list) == [kind |-> "choices", list |-> list]

\* app_commands.Choice(name=..., value=...)
Choice(name, value) == [name |-> name, value |-> value]

\* the list without the slice
TakeAll(list, n) == list

\* list[:25]
Take(list, n) == SubSeq(list, 1, IF Len(list) < n THEN Len(list) ELSE n)

----------------------------------------------------------------------------
(* Autocomplete handlers *)

klasse_autocomplete(classes, current) ==
    Choices(Take(SelectSeq([i \in 1..Len(classes) |->
                               Choice(Str(Title(classes[i])), Str(classes[i]))],
                           LAMBDA c : Contains(Lower(current), Lower(c.value.s))),
                 MaxChoices))

spec_autocomplete(d, selected_class, current) ==
    IF selected_class = <<>> THEN Choices(<<>>)
    ELSE LET available_specs ==
                 Sorted({d.wowhead[i][1][2] :
                            i \in {j \in 1..Len(d.wowhead) :
                                      d.wowhead[j][1][1] = Lower(selected_class)}})
         IN  Choices(Take(SelectSeq([i \in 1..Len(available_specs) |->
                                        Choice(Str(Title(available_specs[i])),
                                               Str(available_specs[i]))],
                                    LAMBDA c : Contains(Lower(current), Lower(c.value.s))),
                          MaxChoices))

\* d["name"] raises unless d is a mapping with the key name
HasName(d) == IsMap(d) /\ Has(d, Str(S_name))

\* the test  current.lower() in d["name"].lower() or current.lower() in slug.lower()
\* raises on a record without name, a name that is no str, or (once the name
\* does not match) a slug that is no str
NameTestRaises(slug, d, current) ==
    \/ ~HasName(d)
    \/ ~IsStr(Get(d, Str(S_name), Null))
    \/ /\ ~Contains(Lower(current), Lower(Get(d, Str(S_name), Null).s))
       /\ ~IsStr(slug)

NameTest(slug, d, current) ==
    \/ Contains(Lower(current), Lower(Get(d, Str(S_name), Null).s))
    \/ Contains(Lower(current), Lower(slug.s))

\* the comprehension shared by dungeon_autocomplete and raid_autocomplete
NamedChoices(m, current) ==
    IF ~IsMap(m) THEN Raise
    ELSE IF \E i \in 1..Len(m.items) :
                NameTestRaises(m.items[i][1], m.items[i][2], current)
    THEN Raise
    ELSE Choices(Take(
            SelectSeq([i \in 1..Len(m.items) |->
                          [name |-> Get(m.items[i][2], Str(S_name), Null),
                           value |-> m.items[i][1],
                           rec |-> m.items[i][2]]],
                      LAMBDA c : NameTest(c.value, c.rec, current)),
            MaxChoices))

\* a list of choices without the records they were built from
Plain(out) ==
    IF out.kind = "choices"
    THEN Choices([i \in 1..Len(out.list) |-> Choice(out.list[i].name, out.list[i].value)])
    ELSE out

dungeon_autocomplete(d, current) == Plain(NamedChoices(d.mplus_routes, current))

raid_autocomplete(d, current) == Plain(NamedChoices(d.raids, current))

\* the name murloc_autocomplete shows for an entry
MurlocName(slug, val) ==
    IF IsMap(val)
    THEN Or(Get(val, Str(S_name), Null), Str(Title(Replace(slug.s))))
    ELSE Str(PyStr(val))

\* slug.replace raises on a slug that is no str, name.lower() on a name that
\* is no str, slug.lower() likewise once the name does not match
MurlocTestRaises(slug, val, current) ==
    \/ IsMap(val) /\ ~Truthy(Get(val, Str(S_name), Null)) /\ ~IsStr(slug)
    \/ ~IsStr(MurlocName(slug, val))
    \/ /\ ~Contains(Lower(current), Lower(MurlocName(slug, val).s))
       /\ ~IsStr(slug)

murloc_autocomplete(d, current) ==
    LET m == Or(d.murloc, EmptyMap) IN
    IF ~IsMap(m) THEN Raise
    ELSE IF \E i \in 1..Len(m.items) :
                MurlocTestRaises(m.items[i][1], m.items[i][2], current)
    THEN Raise
    ELSE Choices(Take(
            SelectSeq([i \in 1..Len(m.items) |->
                          Choice(MurlocName(m.items[i][1], m.items[i][2]), m.items[i][1])],
                      LAMBDA c : \/ Contains(Lower(current), Lower(c.name.s))
                                 \/ Contains(Lower(current), Lower(c.value.s))),
            MaxChoices))

\* (d.get("name", "") or slug).lower() raises when d is no mapping or the
\* value it yields is no str; slug.lower() when the slug is no str
ItemTestRaises(slug, d, current) ==
    \/ ~IsMap(d)
    \/ ~IsStr(Or(Get(d, Str(S_name), Str(<<>>)), slug))
    \/ /\ ~Contains(Lower(current), Lower(Or(Get(d, Str(S_name), Str(<<>>)), slug).s))
       /\ ~IsStr(slug)

mplus_item_autocomplete(d, src, current) ==
    IF src = S_routes
    THEN LET m == d.mplus_routes IN
         IF ~IsMap(m) THEN Raise
         ELSE IF \E i \in 1..Len(m.items) :
                     ItemTestRaises(m.items[i][1], m.items[i][2], current)
         THEN Raise
         ELSE Plain(Choices(Take(
                 SelectSeq([i \in 1..Len(m.items) |->
                               [name |-> Get(m.items[i][2], Str(S_name), m.items[i][1]),
                                value |-> m.items[i][1],
                                rec |-> m.items[i][2]]],
                           LAMBDA c :
                               \/ Contains(Lower(current),
                                           Lower(Or(Get(c.rec, Str(S_name), Str(<<>>)),
                                                    c.value).s))
                               \/ Contains(Lower(current), Lower(c.value.s))),
                 MaxChoices)))
    ELSE IF src = S_murloc THEN murloc_autocomplete(d, current)
    ELSE Choices(<<>>)

----------------------------------------------------------------------------
(* Commands *)

\* guide looking the pair up as typed, without .lower()
guide_as_typed(d, klasse, spec) ==
    LET key == <<klasse, spec>>
    IN  IF ~DictHas(d.wowhead, key) /\ ~DictHas(d.icy, key)
        THEN Say("no_guide", <<klasse, spec>>)
        ELSE Embed("Guides", Title(klasse) \o <<" ">> \o Title(spec),
                   (IF DictHas(d.wowhead, key)
                    THEN <<Field(L_Wowhead, PyStr(DictGet(d.wowhead, key)))>>
                    ELSE <<>>)
                   \o (IF DictHas(d.icy, key)
                       THEN <<Field(L_IcyVeins, PyStr(DictGet(d.icy, key)))>>
                       ELSE <<>>))

guide(d, klasse, spec) ==
    LET k == Lower(klasse)
        s == Lower(spec)
        key == <<k, s>>
    IN  IF ~DictHas(d.wowhead, key) /\ ~DictHas(d.icy, key)
        THEN Say("no_guide", <<klasse, spec>>)
        ELSE Embed("Guides", Title(k) \o <<" ">> \o Title(s),
                   (IF DictHas(d.wowhead, key)
                    THEN <<Field(L_Wowhead, PyStr(DictGet(d.wowhead, key)))>>
                    ELSE <<>>)
                   \o (IF DictHas(d.icy, key)
                       THEN <<Field(L_IcyVeins, PyStr(DictGet(d.icy, key)))>>
                       ELSE <<>>))

\* m.get(item) or m.get((item or "").lower())
Lookup(m, item) == Or(Get(m, Str(item), Null), Get(m, Str(Lower(item)), Null))

\* isinstance(v, str) and v.startswith("http")
IsUrl(v) == IsStr(v) /\ StartsWith(v.s, S_http)

\* the (spec, url) items of c_data in sorted order
SortedItems(c) ==
    LET keys == Sorted({c.items[i][1].s : i \in 1..Len(c.items)})
    IN  [i \in 1..Len(keys) |-> <<keys[i], Get(c, Str(keys[i]), Null)>>]

\* the branch src == "routes" of mplus
mplus_routes(d, item) ==
    IF ~IsMap(d.mplus_routes) THEN Raise
    ELSE LET d_data == Lookup(d.mplus_routes, item) IN
         IF ~Truthy(d_data) THEN Say("no_dungeon", <<item>>)
         ELSE IF ~IsMap(d_data) THEN Raise
         ELSE Embed("M+ Route", PyStr(Get(d_data, Str(S_name), Str(item))),
                    <<Field(L_RouteLink, PyStr(Get(d_data, Str(S_url), Str(<<>>))))>>)

\* the branch src == "murloc" of mplus
mplus_murloc(d, item) ==
    IF ~IsMap(d.murloc) THEN Raise
    ELSE LET c_data == Lookup(d.murloc, item) IN
         IF ~Truthy(c_data) THEN Say("no_entry", <<item>>)
         ELSE IF IsMap(c_data)
         THEN IF \E i \in 1..Len(c_data.items) : IsUrl(c_data.items[i][2])
              THEN IF \E i \in 1..Len(c_data.items) : ~IsStr(c_data.items[i][1])
                   THEN Raise
                   ELSE Embed("Class Guides", Title(Replace(item)),
                              LET all == SortedItems(c_data)
                                  urls == SelectSeq(all, LAMBDA e : IsUrl(e[2]))
                              IN  [i \in 1..Len(urls) |->
                                      Field(Title(urls[i][1]), urls[i][2].s)])
              ELSE LET name == Get(c_data, Str(S_name), Str(Title(Replace(item))))
                       url == Get(c_data, Str(S_url), Null)
                   IN  Embed("Murloc", PyStr(name),
                             IF Truthy(url) THEN <<Field(L_Link, PyStr(url))>> ELSE <<>>)
         ELSE Embed("Murloc", PyStr(c_data), <<>>)

mplus(d, source, item) ==
    IF source = S_routes THEN mplus_routes(d, item)
    ELSE IF source = S_murloc THEN mplus_murloc(d, item)
    ELSE Say("bad_source", <<>>)

raid(d, boss) ==
    IF ~IsMap(d.raids) THEN Raise
    ELSE LET b_data == Get(d.raids, Str(Lower(boss)), Null) IN
         IF ~Truthy(b_data) THEN Say("no_boss", <<boss>>)
         ELSE IF ~IsMap(b_data) \/ ~Has(b_data, Str(S_name)) \/ ~Has(b_data, Str(S_url))
         THEN Raise
         ELSE Embed("Raid Boss", PyStr(Get(b_data, Str(S_name), Null)),
                    <<Field(L_GuideLink, PyStr(Get(b_data, Str(S_url), Null)))>>)

----------------------------------------------------------------------------
(* Chat messages: the text command path of the hybrid commands, and the
   mention scanner with its dispatch guard *)

\* the words of a text: its maximal runs of characters other than space
Words(text) ==
    LET starts == {i \in 1..Len(text) : text[i] # " " /\ (i = 1 \/ text[i-1] = " ")}
        endOf(i) == CHOOSE j \in i..Len(text) :
                        /\ \A k \in i..j : text[k] # " "
                        /\ (j = Len(text) \/ text[j+1] = " ")
        nth(n) == CHOOSE i \in starts : Cardinality({k \in starts : k <= i}) = n
    IN  [n \in 1..Cardinality(starts) |-> SubSeq(text, nth(n), endOf(nth(n)))]

\* no command was invoked
NoCommand == [kind |-> "none"]

\* a message that starts with the prefix invokes the hybrid command named
\* right after it, with the following words as its arguments; an unknown
\* name or a missing argument invokes nothing
TextCommand(d, text) ==
    LET rest == SubSeq(text, Len(Prefix) + 1, Len(text))
        w == Words(rest)
    IN  IF rest = <<>> \/ rest[1] = " " THEN NoCommand
        ELSE IF w[1] = S_guide /\ Len(w) >= 3 THEN guide(d, w[2], w[3])
        ELSE IF w[1] = S_mplus /\ Len(w) >= 3 THEN mplus(d, w[2], w[3])
        ELSE IF w[1] = S_raid /\ Len(w) >= 2 THEN raid(d, w[2])
        ELSE NoCommand

\* what the command path sends: the handler's one ctx.send, nothing when it
\* raised or when no command was invoked
CommandReplies(out) == IF out.kind \in {"text", "embed"} THEN <<out>> ELSE <<>>

\* a guard that forgets the command prefix
ShouldScanAlways(text, author_bot) == ~author_bot

\* MentionDispatchGuard: a message of the bot itself, or one that begins with
\* the command prefix, is not scanned
ShouldScan(text, author_bot) == ~author_bot /\ ~StartsWith(text, Prefix)

NoMatch == [found |-> FALSE, key |-> <<>>, link |-> FALSE]
Match(key, link) == [found |-> TRUE, key |-> key, link |-> link]

\* the known (class, spec) pairs: the keys of the Guide Index, either provider
KnownPairs(d) ==
    {d.wowhead[i][1] : i \in 1..Len(d.wowhead)} \cup {d.icy[i][1] : i \in 1..Len(d.icy)}

\* a pair's link resolves when a provider holds a URL for it
PairLink(d, key) ==
    \/ DictHas(d.wowhead, key) /\ Truthy(DictGet(d.wowhead, key))
    \/ DictHas(d.icy, key) /\ Truthy(DictGet(d.icy, key))

\* TextMentionScanner, guide category: the pairs whose "{spec} {class}" or
\* "{class} {spec}" is a substring of the lower-cased text
GuideMentions(d, text) ==
    {Match(k, PairLink(d, k)) :
        k \in {p \in KnownPairs(d) :
                  \/ Contains(p[2] \o <<" ">> \o p[1], Lower(text))
                  \/ Contains(p[1] \o <<" ">> \o p[2], Lower(text))}}

\* the well-shaped entries of a Dungeon or Boss Index
Entries(m) ==
    IF IsMap(m)
    THEN {i \in 1..Len(m.items) : IsStr(m.items[i][1]) /\ IsMap(m.items[i][2])}
    ELSE {}

\* TextMentionScanner, dungeon and boss categories: the entries whose slug
\* or name is a substring of the lower-cased text
EntryMentions(m, text) ==
    {Match(m.items[i][1].s, Truthy(Get(m.items[i][2], Str(S_url), Null))) :
        i \in {j \in Entries(m) :
                  \/ Contains(Lower(m.items[j][1].s), Lower(text))
                  \/ LET name == Get(m.items[j][2], Str(S_name), Null)
                     IN  IsStr(name) /\ Contains(Lower(name.s), Lower(text))}}

\* the scanner returns at most one match of a category, any of them
OneOf(mentions) == IF mentions = {} THEN {NoMatch} ELSE mentions

\* the reply to a mention
Mention(category, m) == [kind |-> "mention", category |-> category, key |-> m.key]

\* the first category, in the order guide, dungeon, boss, whose match has a
\* resolvable link gets the one reply
MentionReplies(g, dg, b) ==
    IF g.found /\ g.link THEN <<Mention("guide", g)>>
    ELSE IF dg.found /\ dg.link THEN <<Mention("dungeon", dg)>>
    ELSE IF b.found /\ b.link THEN <<Mention("boss", b)>>
    ELSE <<>>

\* everything one inbound message produces
Message(command, scanned, g, dg, b, replies) ==
    [kind |-> "message", command |-> command, scanned |-> scanned,
     guide |-> g, dungeon |-> dg, boss |-> b, replies |-> replies]

----------------------------------------------------------------------------
(* State machine *)

\* what a user types: command arguments and partial inputs
InputChars == {"a", "A", "b"}
Inputs == StrUpTo(InputChars, MaxLen)

\* the source argument of /mplus: one of its two choices, or none
Sources == {S_routes, S_murloc, <<>>}

Idle == [op |-> "idle"]

\* one interaction: the handler op ran on the inputs in and produced out;
\* picked tells that its argument was chosen from the suggestions shown
Ran(op, in, out, picked) == [op |-> op, in |-> in, out |-> out, picked |-> picked]

\* the values of the suggestions on display when op was the last handler run
Offered(ops) ==
    IF last.op \in ops /\ last.out.kind = "choices"
    THEN {last.out.list[i].value.s :
             i \in {j \in 1..Len(last.out.list) : IsStr(last.out.list[j].value)}}
    ELSE {}

\* the arguments a command can get: anything typed, or a suggestion on display
Args(ops) == IF last.op = "idle" THEN Inputs ELSE Offered(ops)

Init ==
    /\ files \in MappingDirs
    /\ pc = "boot"
    /\ data = NoData
    /\ all_classes = <<>>
    /\ last = Idle

\* WoWBot.setup_hook with WowHelper.__init__
setup_hook ==
    /\ pc = "boot"
    /\ IF SetupRaises(ReadDir(files))
       THEN /\ pc' = "failed"
            /\ UNCHANGED <<data, all_classes>>
       ELSE /\ pc' = "ready"
            /\ data' = LoadData(ReadDir(files))
            /\ all_classes' = AllClasses(LoadData(ReadDir(files)))
    /\ UNCHANGED <<files, last>>

\* an autocomplete handler that stores its  data.get("murloc", {}) or {}  back
AutocompleteStoring(op, in, out) ==
    /\ pc = "ready"
    /\ last.op = "idle"
    /\ last' = Ran(op, in, out, FALSE)
    /\ data' = [data EXCEPT !.murloc = Or(data.murloc, EmptyMap)]
    /\ UNCHANGED <<files, pc, all_classes>>

\* an autocomplete request: the handler runs and its list is shown
Autocomplete(op, in, out) ==
    /\ pc = "ready"
    /\ last.op = "idle"
    /\ last' = Ran(op, in, out, FALSE)
    /\ UNCHANGED <<files, pc, data, all_classes>>

\* a command invocation: the handler runs and replies
Command(op, in, out) ==
    /\ pc = "ready"
    /\ last' = Ran(op, in, out, last.op # "idle")
    /\ UNCHANGED <<files, pc, data, all_classes>>

OnKlasseAutocomplete ==
    /\ last.op = "idle"
    /\ \E current \in Inputs :
          Autocomplete("klasse_autocomplete", <<current>>,
                       klasse_autocomplete(all_classes, current))

OnSpecAutocomplete ==
    /\ last.op = "idle"
    /\ \E selected_class \in Inputs, current \in Inputs :
          Autocomplete("spec_autocomplete", <<selected_class, current>>,
                       spec_autocomplete(data, selected_class, current))

OnDungeonAutocomplete ==
    /\ last.op = "idle"
    /\ \E current \in Inputs :
          Autocomplete("dungeon_autocomplete", <<current>>,
                       dungeon_autocomplete(data, current))

OnRaidAutocomplete ==
    /\ last.op = "idle"
    /\ \E current \in Inputs :
          Autocomplete("raid_autocomplete", <<current>>, raid_autocomplete(data, current))

OnMurlocAutocomplete ==
    /\ last.op = "idle"
    /\ \E current \in Inputs :
          Autocomplete("murloc_autocomplete", <<current>>,
                       murloc_autocomplete(data, current))

OnMplusItemAutocomplete ==
    /\ last.op = "idle"
    /\ \E src \in Sources, current \in Inputs :
          Autocomplete("mplus_item_autocomplete", <<src, current>>,
                       mplus_item_autocomplete(data, src, current))

OnGuide ==
    /\ last.op = "idle"
    /\ \E klasse \in Inputs, spec \in Inputs :
          Command("guide", <<klasse, spec>>, guide(data, klasse, spec))

\* the source whose suggestions are on display
OfferedSource ==
    IF last.op = "dungeon_autocomplete" THEN {S_routes}
    ELSE IF last.op = "murloc_autocomplete" THEN {S_murloc}
    ELSE IF last.op = "mplus_item_autocomplete" THEN {last.in[1]}
    ELSE IF last.op = "idle" THEN Sources
    ELSE {}

OnMplus ==
    \E source \in OfferedSource :
        \E item \in Args({"dungeon_autocomplete", "murloc_autocomplete",
                          "mplus_item_autocomplete"}) :
            Command("mplus", <<source, item>>, mplus(data, source, item))

OnRaid ==
    \E boss \in Args({"raid_autocomplete"}) :
        Command("raid", <<boss>>, raid(data, boss))

\* the words of chat messages: two that name a class or a spec, a dungeon
\* and a boss, and one that names nothing
TextWords == {<<"A","b">>, <<"b","a">>, S_routes}

\* the sequences of n to m text words
WordSeqs(n, m) == UNION {[1..k -> TextWords] : k \in n..m}

RECURSIVE Join(_)
Join(ws) ==
    IF Len(ws) = 0 THEN <<>>
    ELSE IF Len(ws) = 1 THEN ws[1]
    ELSE ws[1] \o <<" ">> \o Join(Tail(ws))

\* the chat messages of the model: free text of up to MaxWords words, and
\* the prefix with a command name and none, one or two arguments
Texts ==
    {Join(ws) : ws \in WordSeqs(1, MaxWords)}
    \cup {Join(<<Prefix \o name>> \o ws) :
             name \in {S_guide, S_mplus, S_raid}, ws \in WordSeqs(0, 2)}

\* one inbound chat message: the command path, then the guarded scanner
OnMessage ==
    /\ pc = "ready"
    /\ last.op = "idle"
    /\ \E text \in Texts, author_bot \in BOOLEAN :
        /\ LET command == IF ~author_bot /\ StartsWith(text, Prefix)
                          THEN TextCommand(data, text)
                          ELSE NoCommand
           IN  IF ShouldScan(text, author_bot)
               THEN \E g \in OneOf(GuideMentions(data, text)),
                       dg \in OneOf(EntryMentions(data.mplus_routes, text)),
                       b \in OneOf(EntryMentions(data.raids, text)) :
                        last' = Ran("on_message", <<text, author_bot>>,
                                    Message(command, TRUE, g, dg, b,
                                            CommandReplies(command)
                                            \o MentionReplies(g, dg, b)),
                                    FALSE)
               ELSE last' = Ran("on_message", <<text, author_bot>>,
                                Message(command, FALSE, NoMatch, NoMatch, NoMatch,
                                        CommandReplies(command)),
                                FALSE)
        /\ UNCHANGED <<files, pc, data, all_classes>>

\* the reply or the list is delivered and the interaction ends
Done ==
    /\ last.op # "idle"
    /\ last' = Idle
    /\ UNCHANGED <<files, pc, data, all_classes>>

Next ==
    \/ setup_hook
    \/ OnKlasseAutocomplete
    \/ OnSpecAutocomplete
    \/ OnDungeonAutocomplete
    \/ OnRaidAutocomplete
    \/ OnMurlocAutocomplete
    \/ OnMplusItemAutocomplete
    \/ OnGuide
    \/ OnMplus
    \/ OnRaid
    \/ OnMessage
    \/ Done

Spec == Init /\ [][Next]_vars

----------------------------------------------------------------------------
(* Properties *)

ResolveOps == {"guide", "mplus", "raid"}
SuggestOps ==
    {"klasse_autocomplete", "spec_autocomplete", "dungeon_autocomplete",
     "raid_autocomplete", "murloc_autocomplete", "mplus_item_autocomplete"}

\* a reply that says the key was not found
IsNotFound(out) == out.kind = "text" /\ out.msg \in {"no_guide", "no_dungeon", "no_entry", "no_boss"}

\* the embed has a field of this name
HasField(out, name) == \E i \in 1..Len(out.fields) : out.fields[i].name = name

\* C1: guide resolution depends only on the lower-cased (class, spec) pair.
\* Every key of either provider's index is lower-case; /guide with a class and
\* a spec in any casing answers NotFound exactly when the lower-cased pair is
\* in neither index, and otherwise shows the Wowhead link exactly when wowhead
\* has the pair and the Icy Veins link exactly when icy has it, each with the
\* URL the index holds.
C1_GuideResolution ==
    /\ last.op = "idle" =>
          /\ \A i \in 1..Len(data.wowhead) :
                data.wowhead[i][1]
                    = <<Lower(data.wowhead[i][1][1]), Lower(data.wowhead[i][1][2])>>
          /\ \A i \in 1..Len(data.icy) :
                data.icy[i][1] = <<Lower(data.icy[i][1][1]), Lower(data.icy[i][1][2])>>
    /\ last.op = "guide" =>
          LET key == <<Lower(last.in[1]), Lower(last.in[2])>>
              inW == \E i \in 1..Len(data.wowhead) : data.wowhead[i][1] = key
              inI == \E i \in 1..Len(data.icy) : data.icy[i][1] = key
              out == last.out
          IN  /\ out.kind \in {"text", "embed"}
              /\ IsNotFound(out) <=> (~inW /\ ~inI)
              /\ out.kind = "embed" =>
                    /\ HasField(out, L_Wowhead) <=> inW
                    /\ HasField(out, L_IcyVeins) <=> inI
                    /\ \A i \in 1..Len(out.fields) :
                          \/ /\ out.fields[i].name = L_Wowhead
                             /\ \E j \in 1..Len(data.wowhead) :
                                   /\ data.wowhead[j][1] = key
                                   /\ out.fields[i].link = PyStr(data.wowhead[j][2])
                          \/ /\ out.fields[i].name = L_IcyVeins
                             /\ \E j \in 1..Len(data.icy) :
                                   /\ data.icy[j][1] = key
                                   /\ out.fields[i].link = PyStr(data.icy[j][2])

\* C1 witness: a class typed with an upper-case letter resolves to a pair
\* that only wowhead holds, and the reply shows the Wowhead link alone
C1_Witness ==
    /\ last.op = "guide"
    /\ last.in[1] # Lower(last.in[1])
    /\ last.out.kind = "embed"
    /\ Len(last.out.fields) = 1
    /\ last.out.fields[1].name = L_Wowhead

\* every entry of the index is a {name, url} record under a str slug
WellFormed(m) ==
    /\ IsMap(m)
    /\ \A i \in 1..Len(m.items) :
          /\ IsStr(m.items[i][1])
          /\ IsMap(m.items[i][2])
          /\ IsUrl(Get(m.items[i][2], Str(S_url), Null))
          /\ IsStr(Get(m.items[i][2], Str(S_name), Null))

\* the reply shows the entry: its name as the title, its url as the link
ShowsEntry(out, e) ==
    /\ out.kind = "embed"
    /\ out.title = PyStr(Get(e, Str(S_name), Null))
    /\ Len(out.fields) = 1
    /\ out.fields[1].link = PyStr(Get(e, Str(S_url), Null))

\* the entries of m whose slug equals key when case is ignored
SameSlug(m, key) ==
    {i \in 1..Len(m.items) : Lower(m.items[i][1].s) = Lower(key)}

\* resolving key in the well-formed index m returns the entry whose slug
\* equals key up to case, and NotFound when there is none
ResolvesByCase(m, key, out) ==
    WellFormed(m) =>
        IF SameSlug(m, key) = {} THEN IsNotFound(out)
        ELSE \E i \in SameSlug(m, key) : ShowsEntry(out, m.items[i][2])

\* C2: for every entry of the Dungeon Index and of the Boss Index, whatever
\* the casing of its slug in the source document, resolving the slug written
\* in any casing returns that entry; a key that equals no slug when case is
\* ignored resolves to NotFound.
C2_CaseInsensitiveSlug ==
    /\ (last.op = "mplus" /\ last.in[1] = S_routes) =>
          ResolvesByCase(data.mplus_routes, last.in[2], last.out)
    /\ last.op = "raid" => ResolvesByCase(data.raids, last.in[1], last.out)

\* C3: the value of every dungeon, boss or variant suggestion is the exact
\* resolution key: resolving a value picked from the suggestions on display
\* returns Found, never NotFound (and never an error).
C3_SuggestionResolves ==
    (last.op \in {"mplus", "raid"} /\ last.picked) => last.out.kind = "embed"

\* the candidates of a suggestion operation in the index's iteration order,
\* each with its value and the strings the partial input is searched in
Candidates(op, in) ==
    CASE op = "klasse_autocomplete" ->
            [i \in 1..Len(all_classes) |->
                [value |-> Str(all_classes[i]), tested |-> {all_classes[i]}]]
      [] op = "spec_autocomplete" ->
            LET specs == Sorted({data.wowhead[i][1][2] :
                                    i \in {j \in 1..Len(data.wowhead) :
                                              /\ in[1] # <<>>
                                              /\ data.wowhead[j][1][1] = Lower(in[1])}})
            IN  [i \in 1..Len(specs) |-> [value |-> Str(specs[i]), tested |-> {specs[i]}]]
      [] op \in {"dungeon_autocomplete", "raid_autocomplete"}
         \/ (op = "mplus_item_autocomplete" /\ in[1] = S_routes) ->
            LET m == IF op = "raid_autocomplete" THEN data.raids ELSE data.mplus_routes
            IN  [i \in 1..Len(m.items) |->
                    [value |-> m.items[i][1],
                     tested |-> {m.items[i][1].s}
                                \cup {Get(m.items[i][2], Str(S_name), Null).s}]]
      [] op = "murloc_autocomplete"
         \/ (op = "mplus_item_autocomplete" /\ in[1] = S_murloc) ->
            LET m == data.murloc
            IN  [i \in 1..Len(m.items) |->
                    [value |-> m.items[i][1],
                     tested |-> {m.items[i][1].s,
                                 MurlocName(m.items[i][1], m.items[i][2]).s}]]
      [] OTHER -> <<>>

\* the candidates the partial input matches: a case-insensitive substring
\* of a tested string
Matching(op, in) ==
    SelectSeq(Candidates(op, in),
              LAMBDA c : \E t \in c.tested : Contains(Lower(in[Len(in)]), Lower(t)))

\* C4: every suggestion list has at most 25 entries, and they are the first
\* matches in the index's iteration order: all of them when there are at most
\* 25, the first 25 otherwise.
C4_SuggestionCap ==
    (last.op \in SuggestOps /\ last.out.kind = "choices") =>
        LET list == last.out.list
            M == Matching(last.op, last.in)
        IN  /\ Len(list) <= MaxChoices
            /\ Len(list) = IF Len(M) < MaxChoices THEN Len(M) ELSE MaxChoices
            /\ \A i \in 1..Len(list) : i <= Len(M) /\ list[i].value = M[i].value

\* C4 witness: a suggestion list cut to 25 entries out of more matches
C4_Witness ==
    /\ last.op \in SuggestOps
    /\ last.out.kind = "choices"
    /\ Len(last.out.list) = MaxChoices
    /\ Len(Matching(last.op, last.in)) > MaxChoices

\* the distinct classes of the Guide Index keys, under either provider
GuideClasses ==
    {data.wowhead[i][1][1] : i \in 1..Len(data.wowhead)}
    \cup {data.icy[i][1][1] : i \in 1..Len(data.icy)}

\* C5: with an empty partial input and at most 25 distinct classes, class
\* suggestion returns every distinct class of a Guide Index key, under either
\* provider, exactly once and in ascending alphabetical order.
C5_AllClassesSuggested ==
    (/\ last.op = "klasse_autocomplete"
     /\ last.in[1] = <<>>
     /\ Cardinality(GuideClasses) <= MaxChoices) =>
        /\ last.out.kind = "choices"
        /\ Len(last.out.list) = Cardinality(GuideClasses)
        /\ {last.out.list[i].value.s : i \in 1..Len(last.out.list)} = GuideClasses
        /\ \A i \in 1..(Len(last.out.list) - 1) :
              StrLess(last.out.list[i].value.s, last.out.list[i + 1].value.s)

\* the categories, in the order guide, dungeon, boss, for which the scanner
\* returned a match with a resolvable link
Linked(out) ==
    SelectSeq(<<[category |-> "guide", m |-> out.guide],
                [category |-> "dungeon", m |-> out.dungeon],
                [category |-> "boss", m |-> out.boss]>>,
              LAMBDA c : c.m.found /\ c.m.link)

\* C6: no inbound text produces more than one reply.  A text that begins
\* with the command prefix is handled by the command path only and is never
\* scanned.  Any other text (not written by the bot) is scanned, and when the
\* scanner's match of some category has a resolvable link exactly one reply is
\* sent, for the first such category in the order guide, dungeon, boss;
\* otherwise none is sent.
C6_OneReplyPerMessage ==
    last.op = "on_message" =>
        LET text == last.in[1]
            out == last.out
        IN  /\ Len(out.replies) <= 1
            /\ StartsWith(text, Prefix) =>
                  /\ ~out.scanned
                  /\ \A i \in 1..Len(out.replies) : out.replies[i].kind # "mention"
            /\ (~StartsWith(text, Prefix) /\ ~last.in[2]) =>
                  /\ out.scanned
                  /\ IF Linked(out) = <<>> THEN out.replies = <<>>
                     ELSE /\ Len(out.replies) = 1
                          /\ out.replies[1].kind = "mention"
                          /\ out.replies[1].category = Linked(out)[1].category
                          /\ out.replies[1].key = Linked(out)[1].m.key

\* C6 witness: a text without prefix mentions a guide pair and a dungeon, and
\* the one reply is the guide's
C6_Witness ==
    /\ last.op = "on_message"
    /\ last.out.scanned
    /\ last.out.guide.found /\ last.out.guide.link
    /\ last.out.dungeon.found /\ last.out.dungeon.link
    /\ Len(last.out.replies) = 1
    /\ last.out.replies[1].category = "guide"

\* C7: with every source document missing, startup raises no error, all
\* four indices and the class list are empty, every resolve operation answers
\* NotFound and every suggestion operation returns the empty list.
C7_AllMissing ==
    files = EmptyDir =>
        /\ pc # "failed"
        /\ pc = "ready" =>
              /\ data.wowhead = <<>> /\ data.icy = <<>>
              /\ data.mplus_routes = EmptyMap
              /\ data.raids = EmptyMap
              /\ data.murloc = EmptyMap
              /\ all_classes = <<>>
        /\ (\/ last.op \in {"guide", "raid"}
            \/ last.op = "mplus" /\ last.in[1] \in {S_routes, S_murloc}) =>
              IsNotFound(last.out)
        /\ last.op \in SuggestOps => last.out = Choices(<<>>)

\* C7 witness: with no file at all the bot is up and a variant lookup has
\* answered NotFound
C7_Witness ==
    /\ files = EmptyDir
    /\ pc = "ready"
    /\ last.op = "mplus"
    /\ last.in[1] = S_murloc
    /\ IsNotFound(last.out)

\* C8: a document with one entry of unexpected shape (a class whose value is
\* no mapping, a class or spec key that is no string, a null top-level
\* section, a dungeon or boss record without name or url) makes neither
\* loading nor any later resolve or suggestion operation raise an error.
C8_MalformedIgnored ==
    /\ pc # "failed"
    /\ last.op \in ResolveOps \cup SuggestOps => last.out.kind # "raise"

\* every value of the mapping is a URL-like string
AllUrls(c) == \A i \in 1..Len(c.items) : IsUrl(c.items[i][2])

\* C9: variant resolution renders a mapping as a list of links only when all
\* of its values are URL-like strings, any other mapping as a single link
\* titled by its name, and a value that is no mapping as plain display text.
C9_VariantShape ==
    (/\ last.op = "mplus"
     /\ last.in[1] = S_murloc
     /\ last.out.kind = "embed") =>
        LET c == Lookup(data.murloc, last.in[2])
            out == last.out
        IN  IF IsMap(c)
            THEN /\ out.msg = "Class Guides" <=> AllUrls(c)
                 /\ (~AllUrls(c) /\ Has(c, Str(S_name))) =>
                       /\ out.msg = "Murloc"
                       /\ out.title = PyStr(Get(c, Str(S_name), Null))
            ELSE /\ out.msg = "Murloc"
                 /\ out.title = PyStr(c)
                 /\ out.fields = <<>>

\* C10: the indices are built by setup_hook before any handler runs, and
\* once built no handler changes an index or the class list, on any path.
C10_IndicesFrozen ==
    [][/\ pc = "boot" => last' = last
       /\ pc = "ready" => (data' = data /\ all_classes' = all_classes /\ pc' = "ready")]_vars

\* C10 witness: a command has answered NotFound after a suggestion list was
\* shown, and the indices are still what setup_hook built
C10_Witness ==
    /\ pc = "ready"
    /\ last.op = "raid"
    /\ last.picked
    /\ IsNotFound(last.out)
    /\ data = LoadData(ReadDir(files))

====
